---- MODULE Spec2Model ----
(***************************************************************************)
(* Model of the tennis scoreboard core: core/match.py (class Match) and   *)
(* core/observer.py (class Subject).                                       *)
(*                                                                         *)
(* Python lists of two elements indexed 0 (home) and 1 (away) are          *)
(* functions with domain {0, 1}.  Python None, the value of winner while   *)
(* no side has won, is -1: a value apart from the two sides 0 and 1.       *)
(***************************************************************************)
EXTENDS Integers, Sequences, FiniteSets, TLC

VARIABLES
    best_of_sets,     \* Match.best_of_sets
    sets,             \* Match.sets
    games,            \* Match.games
    points,           \* Match.points
    server,           \* Match.server
    match_complete,   \* Match.match_complete
    winner,           \* Match.winner
    in_tiebreak,      \* Match.in_tiebreak
    tiebreak_points,  \* Match.tiebreak_points
    delivered,        \* snapshots handed to Subject.notify by the last operation, in order
    op,               \* history: the last public operation called
    pre,              \* history: the Match fields before the last operation
    script,           \* history: <<h, a>> when the calls since the fresh match were
                      \*          h home points followed by a away points, else Off
    tbSeen,           \* history: in_tiebreak has been true since the fresh match
    observers,        \* Subject._observers: the attached listeners, in attach order
    received,         \* <<listener, snapshot>> for every update() call of the last operation
    raised,           \* the last operation ended by an exception reaching its caller
    held,             \* a dict handed out by to_dict / get_state and still held outside
    arg,              \* history: the argument of the last operation (NoArg if it takes none)
    preObservers,     \* history: Subject._observers before the last operation
    inflight,         \* the states still to come of a scoring call another thread is in
    disk              \* the storage directory of PersistenceManager

fields == <<best_of_sets, sets, games, points, server, match_complete, winner,
            in_tiebreak, tiebreak_points>>
vars == <<best_of_sets, sets, games, points, server, match_complete, winner,
          in_tiebreak, tiebreak_points, delivered, op, pre, script, tbSeen,
          observers, received, raised, held, arg, preObservers, inflight, disk>>

-----------------------------------------------------------------------------
(* Bounds of the model *)

\* Highest value a side's points may reach in a regular game (deuce depth).
MaxPoints == 6
\* Highest value a side's tiebreak points may reach.
MaxTB == 9
\* best_of_sets given to the constructor ranges over 1..MaxBestOf.
MaxBestOf == 3
\* Longest run of straight home points the scenario history follows (12 games).
HomeRunMax == 12 * 4
\* Longest run of straight away points the scenario history follows (6 games).
AwayRunMax == 6 * 4
\* Number of listeners (UI observers) there are to attach.
MaxListeners == 2
\* Highest value a side's games may reach (only a call cut short by a raising
\* listener leaves games past 6).
MaxGames == 8
\* Number of engine operations a dict handed out by to_dict / get_state is followed for.
SnapLife == 1
\* Most fields a snapshot given to from_dict may lack.
MaxMissing == 2
\* Most match files the storage directory may hold.
MaxFiles == 3

-----------------------------------------------------------------------------
(* Values *)

\* Python None (the unset winner): an integer that is no side.
None == -1
Off == <<-1, -1>>
Players == {0, 1}
Pair(a, b) == (0 :> a @@ 1 :> b)
Zero2 == Pair(0, 0)

\* The fields of a Match object as one record.
Cur == [best_of_sets    |-> best_of_sets,
        sets            |-> sets,
        games           |-> games,
        points          |-> points,
        server          |-> server,
        match_complete  |-> match_complete,
        winner          |-> winner,
        in_tiebreak     |-> in_tiebreak,
        tiebreak_points |-> tiebreak_points]

\* The listeners: objects with an update(match_state) method.
Listeners == 1..MaxListeners
\* The attributes of Match that hold a list.
ListFields == {"sets", "games", "points", "tiebreak_points"}

\* Python objects passed as arguments, each with its type: a dict (a function
\* over its keys), a list (a sequence), None, a str (the sequence of its
\* characters), a listener.
PyDict(d) == [type |-> "dict", value |-> d]
PyList(l) == [type |-> "list", value |-> l]
PyNone == [type |-> "NoneType", value |-> None]
PyStr(chars) == [type |-> "str", value |-> chars]
PyListener(l) == [type |-> "listener", value |-> l]
PyInt(n) == [type |-> "int", value |-> n]
\* The last operation takes no argument.
NoArg == [type |-> "none", value |-> None]

\* No dict is held outside the engine.
\*   kind    which method returned the dict,
\*   expect  the dict as its holder left it (as returned, plus the holder's edits),
\*   now     the dict as it reads now,
\*   shares  the list fields whose list is still the engine's own list object,
\*   edited  the holder has changed the dict,
\*   age     engine operations since the dict was returned.
NoHeld == [kind |-> "none", expect |-> <<>>, now |-> <<>>, shares |-> {},
           edited |-> FALSE, age |-> 0]

\* A call in progress on an object with fields s:
\*   st   the object's fields,
\*   out  the snapshots passed to Subject.notify so far,
\*   rcv  the update() calls made so far, as <<listener, snapshot>>,
\*   exc  an exception is propagating (the rest of the call is skipped),
\*   obs  Subject._observers,
\*   bad  the listeners whose update() raises,
\*   ext  the dict held outside (its lists may be the object's own lists).
CallOn(s, obs, bad, ext) ==
    [st |-> s, out |-> <<>>, rcv |-> <<>>, exc |-> FALSE,
     obs |-> obs, bad |-> bad, ext |-> ext]
Call(s) == CallOn(s, observers, {}, held)

\* self.<f>[player] += 1: the list object is changed in place, so every holder of
\* that list sees the change.
IncrItem(m, f, player) ==
    [m EXCEPT !.st[f][player] = @ + 1,
              !.ext.now = IF f \in m.ext.shares
                          THEN [m.ext.now EXCEPT ![f][player] = @ + 1]
                          ELSE m.ext.now]

\* self.<f> = value: the attribute is bound to a new list; a holder of the old
\* list keeps the old list.
Assign(m, f, value) ==
    [m EXCEPT !.st[f] = value,
              !.ext.shares = @ \ {f}]

-----------------------------------------------------------------------------
(* core/match.py *)

get_state(s) ==
    [sets            |-> s.sets,
     games           |-> s.games,
     points          |-> s.points,
     server          |-> s.server,
     match_complete  |-> s.match_complete,
     winner          |-> s.winner,
     server_name     |-> IF s.server = 0 THEN "Home" ELSE "Away",
     in_tiebreak     |-> s.in_tiebreak,
     tiebreak_points |-> s.tiebreak_points]

\* A get_state() that puts the lists in the dict without copying them.
get_state_shares_all == ListFields

\* The list fields of get_state()'s dict that are the object's own lists: none,
\* each is a .copy().
get_state_shares == {}

\* Subject.notify: update() is called on the observers in list order; the first
\* update() that raises ends the loop and the exception leaves notify.
notify(m, match_state) ==
    LET raisers == {i \in 1..Len(m.obs) : m.obs[i] \in m.bad}
        last == IF raisers = {}
                THEN Len(m.obs)
                ELSE CHOOSE i \in raisers : \A j \in raisers : i <= j
    IN [m EXCEPT !.out = Append(@, match_state),
                 !.rcv = @ \o [i \in 1..last |-> <<m.obs[i], match_state>>],
                 !.exc = (raisers # {})]

_notify_state_change(m) == notify(m, get_state(m.st))

\* A swap_server that does nothing once the match is complete.
swap_server_unless_complete(m) ==
    IF m.st.match_complete
    THEN m
    ELSE _notify_state_change([m EXCEPT !.st.server = 1 - @])

swap_server(m) ==
    _notify_state_change([m EXCEPT !.st.server = 1 - @])

\* A game rule that forgot the two-point margin.
_is_game_won_no_margin(s, player) ==
    s.points[player] >= 4

_is_game_won(s, player) ==
    LET opponent == 1 - player IN
    \/ /\ s.points[player] >= 4
       /\ s.points[player] - s.points[opponent] >= 2
    \/ /\ s.points[player] >= 4
       /\ s.points[opponent] >= 4
       /\ s.points[player] - s.points[opponent] >= 2

\* A tiebreak rule that is first to 7, whatever the margin.
_is_tiebreak_won_first_to_7(s, player) ==
    s.tiebreak_points[player] >= 7

_is_tiebreak_won(s, player) ==
    LET opponent == 1 - player IN
    /\ s.tiebreak_points[player] >= 7
    /\ \/ s.tiebreak_points[opponent] <= 5
       \/ s.tiebreak_points[player] - s.tiebreak_points[opponent] >= 2

\* A set rule that forgot the two-game margin.
_is_set_won_no_margin(s, player) ==
    \/ s.games[player] >= 6
    \/ /\ s.in_tiebreak
       /\ _is_tiebreak_won(s, player)

\* A set rule that asks for more than six games.
_is_set_won_seven(s, player) ==
    LET opponent == 1 - player IN
    \/ /\ s.games[player] > 6
       /\ s.games[player] - s.games[opponent] >= 2
    \/ /\ s.in_tiebreak
       /\ _is_tiebreak_won(s, player)

_is_set_won(s, player) ==
    LET opponent == 1 - player IN
    \/ /\ s.games[player] >= 6
       /\ s.games[player] - s.games[opponent] >= 2
    \/ /\ s.in_tiebreak
       /\ _is_tiebreak_won(s, player)

\* A tiebreak entry that fires as soon as either side has six games.
_should_start_tiebreak_either(s) ==
    s.games[0] = 6 \/ s.games[1] = 6

_should_start_tiebreak(s) ==
    s.games[0] = 6 /\ s.games[1] = 6

\* A match rule that needs only half the sets (the + 1 forgotten).
_is_match_won_half(s, player) ==
    LET sets_needed == s.best_of_sets \div 2 IN
    s.sets[player] >= sets_needed

_is_match_won(s, player) ==
    LET sets_needed == (s.best_of_sets \div 2) + 1 IN
    s.sets[player] >= sets_needed

\* A game win counted for the other side.
_win_game_for_opponent(m, player) ==
    swap_server(IncrItem(m, "games", 1 - player))

_win_game(m, player) ==
    swap_server(IncrItem(m, "games", player))

\* A set win that counts the set and leaves the server alone.
_win_set_no_swap(m, player) ==
    IncrItem(m, "sets", player)

_win_set(m, player) ==
    swap_server(IncrItem(m, "sets", player))

\* A match win that does not record the winner.
_win_match_no_winner(m, player) ==
    [m EXCEPT !.st.match_complete = TRUE]

_win_match(m, player) ==
    [m EXCEPT !.st.match_complete = TRUE, !.st.winner = player]

\* Resets after a tiebreak win that leave the tiebreak points standing.
AfterTiebreakWin_keeps_tiebreak_points(m) ==
    LET m1 == Assign(m, "games", Zero2)
        m2 == Assign(m1, "points", Zero2)
    IN [m2 EXCEPT !.st.in_tiebreak = FALSE]

\* Lines 70-73: the resets after a tiebreak win.
AfterTiebreakWin(m) ==
    LET m1 == Assign(m, "games", Zero2)
        m2 == Assign(m1, "points", Zero2)
        m3 == [m2 EXCEPT !.st.in_tiebreak = FALSE]
    IN Assign(m3, "tiebreak_points", Zero2)

\* An entry into the tiebreak that does not set in_tiebreak.
StartTiebreak_not_flagged(m) ==
    LET m2 == Assign(m, "points", Zero2)
    IN Assign(m2, "tiebreak_points", Zero2)

\* Lines 90-92: entering the tiebreak.
StartTiebreak(m) ==
    LET m1 == [m EXCEPT !.st.in_tiebreak = TRUE]
        m2 == Assign(m1, "points", Zero2)
    IN Assign(m2, "tiebreak_points", Zero2)

\* A tiebreak branch that leaves the games at 6-6 when the tiebreak is won.
ScoreTiebreakPoint_keeps_games(m, player) ==
    LET m1 == IncrItem(m, "tiebreak_points", player) IN
    IF _is_tiebreak_won(m1.st, player)
    THEN LET m2 == _win_set(m1, player) IN
         IF m2.exc
         THEN m2
         ELSE LET m3 == Assign(m2, "points", Zero2)
                  m4 == [m3 EXCEPT !.st.in_tiebreak = FALSE]
              IN Assign(m4, "tiebreak_points", Zero2)
    ELSE m1

\* _score_point, the branch taken while in_tiebreak (lines 63-73).
ScoreTiebreakPoint(m, player) ==
    LET m1 == IncrItem(m, "tiebreak_points", player) IN
    IF _is_tiebreak_won(m1.st, player)
    THEN LET m2 == _win_set(m1, player) IN
         IF m2.exc THEN m2 ELSE AfterTiebreakWin(m2)
    ELSE m1

\* A regular branch that leaves the games standing when the set is won.
ScoreRegularPoint_keeps_games(m, player) ==
    LET m1 == IncrItem(m, "points", player) IN
    IF _is_game_won(m1.st, player)
    THEN LET m2 == _win_game(m1, player)
             m3 == Assign(m2, "points", Zero2)
         IN IF m2.exc
            THEN m2
            ELSE IF _is_set_won(m3.st, player)
                 THEN _win_set(m3, player)
                 ELSE IF _should_start_tiebreak(m3.st)
                      THEN StartTiebreak(m3)
                      ELSE m3
    ELSE m1

\* _score_point, the branch taken in regular play (lines 74-92).
ScoreRegularPoint(m, player) ==
    LET m1 == IncrItem(m, "points", player) IN
    IF _is_game_won(m1.st, player)
    THEN LET m2 == _win_game(m1, player)
             m3 == Assign(m2, "points", Zero2)
         IN IF m2.exc
            THEN m2
            ELSE IF _is_set_won(m3.st, player)
                 THEN LET m4 == _win_set(m3, player) IN
                      IF m4.exc THEN m4 ELSE Assign(m4, "games", Zero2)
                 ELSE IF _should_start_tiebreak(m3.st)
                      THEN StartTiebreak(m3)
                      ELSE m3
    ELSE m1

\* _score_point after its guard: both branches, the match check, the notification
\* (lines 63-98).
ScorePointBody(m, player) ==
    LET m1 == IF m.st.in_tiebreak
              THEN ScoreTiebreakPoint(m, player)
              ELSE ScoreRegularPoint(m, player)
        m2 == IF _is_match_won(m1.st, player)
              THEN _win_match(m1, player)
              ELSE m1
    IN IF m1.exc THEN m1 ELSE _notify_state_change(m2)

_score_point(m, player) ==
    IF m.st.match_complete
    THEN m
    ELSE ScorePointBody(m, player)

\* Indexing a list of two items with i: Python accepts -2..1, a negative index
\* counting from the end, and raises IndexError for any other.
IndexInRange(i) == i \in -2..1
ListIndex(i) == IF i < 0 THEN i + 2 ELSE i

\* _score_point called with a player that is neither 0 nor 1 (lines 58-98).
\* The increment at line 65 / 75 indexes the list with player. opponent =
\* 1 - player is then 2 or more, so _is_game_won and _is_tiebreak_won raise
\* IndexError as soon as their first test (points[player] >= 4,
\* tiebreak_points[player] >= 7) lets them read the opponent's item, and return
\* False before that. _is_match_won indexes sets with player alone.
_score_point_off_side(m, player) ==
    IF m.st.match_complete
    THEN m
    ELSE IF ~IndexInRange(player)
    THEN [m EXCEPT !.exc = TRUE]
    ELSE LET i == ListIndex(player)
             m1 == IncrItem(m, IF m.st.in_tiebreak THEN "tiebreak_points" ELSE "points", i)
             reads_opponent == IF m.st.in_tiebreak
                               THEN m1.st.tiebreak_points[i] >= 7
                               ELSE m1.st.points[i] >= 4
             m2 == IF _is_match_won(m1.st, i)
                   THEN _win_match(m1, player)
                   ELSE m1
         IN IF reads_opponent
            THEN [m1 EXCEPT !.exc = TRUE]
            ELSE _notify_state_change(m2)

\* A scoring entry point that lost the match_complete guards.
scores_point_unguarded(m, player) ==
    ScorePointBody(m, player)

\* A scoring entry point that notifies the unchanged state of a completed match.
scores_point_notifies(m, player) ==
    IF ~m.st.match_complete
    THEN _score_point(m, player)
    ELSE _notify_state_change(m)

\* home_scores_point (player = 0) and away_scores_point (player = 1).
scores_point(m, player) ==
    IF ~m.st.match_complete
    THEN _score_point(m, player)
    ELSE m

\* A reset that leaves a completed match completed.
reset_keeps_complete(m) ==
    LET m1 == Assign(m, "sets", Zero2)
        m2 == Assign(m1, "games", Zero2)
        m3 == Assign(m2, "points", Zero2)
        m4 == [m3 EXCEPT !.st.server = 0,
                         !.st.in_tiebreak = FALSE]
    IN _notify_state_change(Assign(m4, "tiebreak_points", Zero2))

reset(m) ==
    LET m1 == Assign(m, "sets", Zero2)
        m2 == Assign(m1, "games", Zero2)
        m3 == Assign(m2, "points", Zero2)
        m4 == [m3 EXCEPT !.st.server = 0,
                         !.st.match_complete = FALSE,
                         !.st.winner = None,
                         !.st.in_tiebreak = FALSE]
    IN _notify_state_change(Assign(m4, "tiebreak_points", Zero2))

\* Match.__init__: the object after construction with the given best_of_sets.
NewMatch(n) ==
    reset(CallOn([best_of_sets    |-> n,
                  sets            |-> Zero2,
                  games           |-> Zero2,
                  points          |-> Zero2,
                  server          |-> 0,
                  match_complete  |-> FALSE,
                  winner          |-> None,
                  in_tiebreak     |-> FALSE,
                  tiebreak_points |-> Zero2], <<>>, {}, NoHeld))

\* An attach without the membership test.
attach_always(obs, observer) == Append(obs, observer)

\* A detach that drops the last listener of the list, whoever was named.
detach_last(obs, observer) ==
    IF obs = <<>> THEN obs ELSE SubSeq(obs, 1, Len(obs) - 1)

\* Subject.detach: list.remove drops the first item equal to observer; its
\* ValueError when there is none is caught and dropped.
detach(obs, observer) ==
    LET at == {i \in 1..Len(obs) : obs[i] = observer} IN
    IF at = {}
    THEN obs
    ELSE LET i == CHOOSE i \in at : \A j \in at : i <= j
         IN SubSeq(obs, 1, i - 1) \o SubSeq(obs, i + 1, Len(obs))

\* Subject.attach: appended unless already in the list.
attach(obs, observer) ==
    IF \E i \in 1..Len(obs) : obs[i] = observer
    THEN obs
    ELSE Append(obs, observer)

\* dict.get(key, default) on a dict given as a function over its keys.
get(data, key, default) ==
    IF key \in DOMAIN data THEN data[key] ELSE default

\* point_names, a Python list indexed from 0.
point_names == <<"0", "15", "30", "40">>

min(a, b) == IF a <= b THEN a ELSE b

\* A _format_points without the deuce and advantage branch.
_format_points_no_advantage(s) ==
    point_names[min(s.points[0], 3) + 1] \o " - " \o point_names[min(s.points[1], 3) + 1]

_format_points(s) ==
    LET home_points == s.points[0]
        away_points == s.points[1]
    IN IF home_points >= 3 /\ away_points >= 3
       THEN IF home_points = away_points
            THEN "40 - 40"
            ELSE IF home_points > away_points
                 THEN "Advantage - 40"
                 ELSE "40 - Advantage"
       ELSE point_names[min(home_points, 3) + 1] \o " - "
                \o point_names[min(away_points, 3) + 1]

\* A get_score_display that formats the game points during a tiebreak too.
get_score_display_no_tiebreak(s) ==
    [sets   |-> ToString(s.sets[0]) \o " - " \o ToString(s.sets[1]),
     games  |-> ToString(s.games[0]) \o " - " \o ToString(s.games[1]),
     points |-> _format_points(s),
     server |-> IF s.server = 0 THEN "Home" ELSE "Away"]

get_score_display(s) ==
    [sets   |-> ToString(s.sets[0]) \o " - " \o ToString(s.sets[1]),
     games  |-> ToString(s.games[0]) \o " - " \o ToString(s.games[1]),
     points |-> IF s.in_tiebreak
                THEN "Tiebreak: " \o ToString(s.tiebreak_points[0]) \o " - "
                         \o ToString(s.tiebreak_points[1])
                ELSE _format_points(s),
     server |-> IF s.server = 0 THEN "Home" ELSE "Away"]

\* A to_dict() of the older snapshot format, without the tiebreak fields.
to_dict_no_tiebreak(s) ==
    [best_of_sets    |-> s.best_of_sets,
     sets            |-> s.sets,
     games           |-> s.games,
     points          |-> s.points,
     server          |-> s.server,
     match_complete  |-> s.match_complete,
     winner          |-> s.winner]

\* The list fields of to_dict()'s dict that are the object's own lists: all of
\* them, the dict is built from self.sets, self.games, ... without a copy.
to_dict_shares == ListFields

to_dict(s) ==
    [best_of_sets    |-> s.best_of_sets,
     sets            |-> s.sets,
     games           |-> s.games,
     points          |-> s.points,
     server          |-> s.server,
     match_complete  |-> s.match_complete,
     winner          |-> s.winner,
     in_tiebreak     |-> s.in_tiebreak,
     tiebreak_points |-> s.tiebreak_points]

\* A from_dict that keeps the attribute it has for a key the dict lacks.
from_dict_keeps_missing(m, data) ==
    LET m1 == [m EXCEPT !.st.best_of_sets = get(data, "best_of_sets", m.st.best_of_sets)]
        m2 == Assign(m1, "sets", get(data, "sets", m.st.sets))
        m3 == Assign(m2, "games", get(data, "games", m.st.games))
        m4 == Assign(m3, "points", get(data, "points", m.st.points))
        m5 == [m4 EXCEPT !.st.server         = get(data, "server", m.st.server),
                         !.st.match_complete = get(data, "match_complete", m.st.match_complete),
                         !.st.winner         = get(data, "winner", m.st.winner),
                         !.st.in_tiebreak    = get(data, "in_tiebreak", m.st.in_tiebreak)]
        m6 == Assign(m5, "tiebreak_points", get(data, "tiebreak_points", m.st.tiebreak_points))
    IN _notify_state_change(m6)

from_dict(m, data) ==
    LET m1 == [m EXCEPT !.st.best_of_sets = get(data, "best_of_sets", 3)]
        m2 == Assign(m1, "sets", get(data, "sets", Zero2))
        m3 == Assign(m2, "games", get(data, "games", Zero2))
        m4 == Assign(m3, "points", get(data, "points", Zero2))
        m5 == [m4 EXCEPT !.st.server         = get(data, "server", 0),
                         !.st.match_complete = get(data, "match_complete", FALSE),
                         !.st.winner         = get(data, "winner", None),
                         !.st.in_tiebreak    = get(data, "in_tiebreak", FALSE)]
        m6 == Assign(m5, "tiebreak_points", get(data, "tiebreak_points", Zero2))
    IN _notify_state_change(m6)

\* from_dict called with any object: data.get is looked up first (line 241), and
\* only a dict has it; on another object the lookup raises AttributeError before
\* anything is assigned.
from_dict_of(m, obj) ==
    IF obj.type = "dict"
    THEN from_dict(m, obj.value)
    ELSE [m EXCEPT !.exc = TRUE]

-----------------------------------------------------------------------------
(* core/persistence.py *)

\* The storage directory (base_dir, an absolute path):
\*   files   the match files <date>-NN.json, oldest modification first, each with
\*           the NN of its name and its content,
\*   latest  the NN of the file name latest.json is a symlink to, or NoLink when
\*           there is no latest.json.
\* All files are of one day.
NoLink == 0
EmptyDir == [files |-> <<>>, latest |-> NoLink]

\* Path.exists() of the match file NN.
file_exists(d, n) == \E i \in 1..Len(d.files) : d.files[i].id = n

\* self.latest_file.exists(): Path.exists() follows the symlink, so it is false
\* for a symlink whose target is gone.
latest_exists(d) == d.latest # NoLink /\ file_exists(d, d.latest)

\* json.dump and json.load of a snapshot: lists, integers and booleans are
\* written as themselves; the winner is written as null for None and as its
\* number otherwise (here the empty tuple and a tuple of the number).
json_dump(data) ==
    [k \in DOMAIN data |->
        IF k = "winner"
        THEN IF data[k] = None THEN <<>> ELSE <<data[k]>>
        ELSE data[k]]
json_load(text) ==
    [k \in DOMAIN text |->
        IF k = "winner"
        THEN IF text[k] = <<>> THEN None ELSE text[k][1]
        ELSE text[k]]

\* _generate_match_id: the first NN from 01 that no file has.
_generate_match_id(d) ==
    CHOOSE n \in 1..(Len(d.files) + 1) :
        /\ ~file_exists(d, n)
        /\ \A k \in 1..(n - 1) : file_exists(d, k)

\* An _update_latest_symlink that never unlinks the latest.json it finds.
_update_latest_symlink_no_unlink(d, target) ==
    LET chosen == IF target # NoLink
                  THEN target
                  ELSE IF d.files = <<>>
                       THEN NoLink
                       ELSE d.files[Len(d.files)].id
    IN IF chosen = NoLink \/ ~file_exists(d, chosen) \/ d.latest # NoLink
       THEN d
       ELSE [d EXCEPT !.latest = chosen]

\* _update_latest_symlink: target is the NN of target_file, NoLink for None.
\* symlink_to raises FileExistsError when latest.json is still there (a symlink
\* whose target is gone was not unlinked at line 186); the except clause drops it.
_update_latest_symlink(d, target) ==
    LET d1 == IF latest_exists(d) THEN [d EXCEPT !.latest = NoLink] ELSE d
        chosen == IF target # NoLink
                  THEN target
                  ELSE IF d1.files = <<>>
                       THEN NoLink
                       ELSE d1.files[Len(d1.files)].id
    IN IF chosen = NoLink \/ ~file_exists(d1, chosen) \/ d1.latest # NoLink
       THEN d1
       ELSE [d1 EXCEPT !.latest = chosen]

\* save_match with match_id None.
save_match(d, match_data) ==
    LET match_id == _generate_match_id(d)
        content == [match_id |-> match_id, data |-> json_dump(match_data)]
        d1 == [d EXCEPT !.files = Append(@, [id |-> match_id, content |-> content])]
    IN _update_latest_symlink(d1, match_id)

\* delete_match: the file is unlinked first (line 152), then latest.json is
\* tested with exists() (line 155).
delete_match(d, n) ==
    IF file_exists(d, n)
    THEN LET d1 == [d EXCEPT !.files = SelectSeq(@, LAMBDA f : f.id # n)] IN
         IF latest_exists(d1) /\ d1.latest = n
         THEN _update_latest_symlink(d1, NoLink)
         ELSE d1
    ELSE d

\* load_match of the file NN: the 'data' entry of its content.
load_match(d, n) ==
    LET f == CHOOSE f \in {d.files[i] : i \in 1..Len(d.files)} : f.id = n
    IN json_load(get(f.content, "data", f.content))

\* load_latest: the snapshot of the file latest.json leads to, or None.
load_latest(d) ==
    IF latest_exists(d)
    THEN PyDict(load_match(d, d.latest))
    ELSE PyNone

-----------------------------------------------------------------------------
(* The state machine *)

\* The dict held outside after one more engine operation: followed for SnapLife
\* operations, then let go.
Aged(ext) ==
    IF ext.kind # "none" /\ ext.age < SnapLife
    THEN [ext EXCEPT !.age = @ + 1]
    ELSE NoHeld

\* The object's fields become s.
FieldsBecome(s) ==
    /\ best_of_sets'    = s.best_of_sets
    /\ sets'            = s.sets
    /\ games'           = s.games
    /\ points'          = s.points
    /\ server'          = s.server
    /\ match_complete'  = s.match_complete
    /\ winner'          = s.winner
    /\ in_tiebreak'     = s.in_tiebreak
    /\ tiebreak_points' = s.tiebreak_points

\* A read-only method (to_dict, get_state) was called: no field changes, nothing
\* is notified.
Observes(name) ==
    /\ FieldsBecome(Cur)
    /\ delivered' = <<>>
    /\ received' = <<>>
    /\ raised' = FALSE
    /\ op' = name
    /\ pre' = Cur
    /\ arg' = NoArg
    /\ preObservers' = observers
    /\ script' = Off
    /\ UNCHANGED <<observers, tbSeen, inflight, disk>>

\* The object's fields and the notifications become those of the finished call
\* m, and the storage directory becomes d.
BecomesOnDisk(m, d) ==
    /\ FieldsBecome(m.st)
    /\ delivered'       = m.out
    /\ received'        = m.rcv
    /\ raised'          = m.exc
    /\ held'            = Aged(m.ext)
    /\ inflight'        = <<>>
    /\ disk'            = d
    /\ UNCHANGED observers

\* The object's fields and the notifications become those of the finished call m.
Becomes(m) == BecomesOnDisk(m, disk)

\* The counters stay within the bounds of the model.
CanScore(player) ==
    \/ match_complete
    \/ /\ games[player] < MaxGames
       /\ \/ in_tiebreak /\ tiebreak_points[player] < MaxTB
          \/ ~in_tiebreak /\ points[player] < MaxPoints

\* Construction, then the listeners attached in turn (match = Match();
\* match.attach(ui)).
Init ==
    \E n \in 1..MaxBestOf :
        LET m == NewMatch(n) IN
        /\ best_of_sets    = m.st.best_of_sets
        /\ sets            = m.st.sets
        /\ games           = m.st.games
        /\ points          = m.st.points
        /\ server          = m.st.server
        /\ match_complete  = m.st.match_complete
        /\ winner          = m.st.winner
        /\ in_tiebreak     = m.st.in_tiebreak
        /\ tiebreak_points = m.st.tiebreak_points
        /\ delivered       = m.out
        /\ received        = m.rcv
        /\ raised          = m.exc
        /\ held            = NoHeld
        /\ observers       = [i \in Listeners |-> i]
        /\ op = "init"
        /\ pre = m.st
        /\ arg = NoArg
        /\ preObservers = <<>>
        /\ inflight = <<>>
        /\ disk = EmptyDir
        /\ script = <<0, 0>>
        /\ tbSeen = FALSE

\* home_scores_point / away_scores_point while the listeners in bad raise.
Scores(player, bad) ==
    /\ CanScore(player)
    /\ LET m == scores_point(CallOn(Cur, observers, bad, held), player) IN
       /\ Becomes(m)
       /\ tbSeen' = (tbSeen \/ m.st.in_tiebreak)
    /\ op' = IF player = 0 THEN "home" ELSE "away"
    /\ pre' = Cur
    /\ arg' = NoArg
    /\ preObservers' = observers
    /\ script' = IF player = 0
                 THEN IF script # Off /\ script[2] = 0 /\ script[1] < HomeRunMax
                      THEN <<script[1] + 1, 0>>
                      ELSE Off
                 ELSE IF script # Off /\ script[2] < AwayRunMax
                      THEN <<script[1], script[2] + 1>>
                      ELSE Off

\* swap_server while the listeners in bad raise.
Swaps(bad) ==
    /\ Becomes(swap_server(CallOn(Cur, observers, bad, held)))
    /\ op' = "swap"
    /\ pre' = Cur
    /\ arg' = NoArg
    /\ preObservers' = observers
    /\ script' = Off
    /\ UNCHANGED tbSeen

\* reset while the listeners in bad raise.
Resets(bad) ==
    /\ Becomes(reset(CallOn(Cur, observers, bad, held)))
    /\ op' = "reset"
    /\ pre' = Cur
    /\ arg' = NoArg
    /\ preObservers' = observers
    /\ script' = <<0, 0>>
    /\ tbSeen' = FALSE

HomeScoresPoint == Scores(0, {})

AwayScoresPoint == Scores(1, {})

SwapServer == Swaps({})

Reset == Resets({})

Next ==
    \/ HomeScoresPoint
    \/ AwayScoresPoint
    \/ SwapServer
    \/ Reset

Spec == Init /\ [][Next]_vars

\* Match(1): a one-set match, with the listeners attached.
InitOneSet == Init /\ best_of_sets = 1

\* Snapshots handed to from_dict: an empty dict, a finished best-of-3 match saved
\* by to_dict, and a partial dict of a tiebreak at 6-6.
DictInputs ==
    << <<>>,
       to_dict([best_of_sets    |-> 3,
                sets            |-> Pair(2, 0),
                games           |-> Zero2,
                points          |-> Zero2,
                server          |-> 0,
                match_complete  |-> TRUE,
                winner          |-> 0,
                in_tiebreak     |-> FALSE,
                tiebreak_points |-> Zero2]),
       [games |-> Pair(6, 6), in_tiebreak |-> TRUE, tiebreak_points |-> Pair(6, 6)] >>

\* from_dict of one of the snapshots while the listeners in bad raise.
Loads(bad) ==
    /\ \E i \in 1..Len(DictInputs) :
          LET m == from_dict(CallOn(Cur, observers, bad, held), DictInputs[i]) IN
          /\ Becomes(m)
          /\ tbSeen' = m.st.in_tiebreak
          /\ arg' = PyDict(DictInputs[i])
    /\ op' = "from_dict"
    /\ pre' = Cur
    /\ preObservers' = observers
    /\ script' = Off

FromDict == Loads({})

\* new_match = Match(); new_match.from_dict(match.to_dict()), the listeners
\* attached to the new match: the new match takes the place of the old one.
NewMatchLoads ==
    /\ LET m == from_dict(CallOn(NewMatch(3).st, observers, {}, NoHeld), to_dict(Cur)) IN
       /\ Becomes(m)
       /\ tbSeen' = m.st.in_tiebreak
    /\ op' = "load_new"
    /\ pre' = Cur
    /\ arg' = NoArg
    /\ preObservers' = observers
    /\ script' = Off

NextLoad ==
    \/ HomeScoresPoint
    \/ AwayScoresPoint
    \/ SwapServer
    \/ Reset
    \/ FromDict
    \/ NewMatchLoads

\* The engine with snapshot loading among its operations.
SpecLoad == Init /\ [][NextLoad]_vars

\* Arguments of from_dict that are not snapshots: None, a list, the text of a
\* snapshot file not parsed, and a dict whose sets is a str.
InvalidInputs ==
    << PyNone,
       PyList(<<0, 0>>),
       PyStr(<<"{", "}">>),
       PyDict([sets |-> <<"2", "-", "0">>]) >>

\* The list attributes of s are lists of two items.
WellTyped(s) == \A f \in ListFields : DOMAIN s[f] = Players

FromDictInvalid ==
    /\ \E i \in 1..Len(InvalidInputs) :
          LET m == from_dict_of(Call(Cur), InvalidInputs[i]) IN
          /\ Becomes(m)
          /\ arg' = InvalidInputs[i]
    /\ op' = "from_dict"
    /\ pre' = Cur
    /\ preObservers' = observers
    /\ script' = Off
    /\ UNCHANGED tbSeen

\* Calls on an engine left with an attribute of the wrong type are not followed:
\* the operators of the model are defined on well-typed fields.
NextInvalid ==
    \/ WellTyped(Cur) /\ HomeScoresPoint
    \/ WellTyped(Cur) /\ AwayScoresPoint
    \/ WellTyped(Cur) /\ SwapServer
    \/ WellTyped(Cur) /\ Reset
    \/ WellTyped(Cur) /\ FromDictInvalid

\* The engine given arguments of from_dict that are not snapshots.
SpecInvalid == InitOneSet /\ [][NextInvalid]_vars

\* A snapshot with no field at its default.
FullSnapshot ==
    [best_of_sets    |-> 1,
     sets            |-> Pair(1, 2),
     games           |-> Pair(3, 4),
     points          |-> Pair(2, 3),
     server          |-> 1,
     match_complete  |-> TRUE,
     winner          |-> 1,
     in_tiebreak     |-> TRUE,
     tiebreak_points |-> Pair(5, 6)]

\* The dict d without the keys in missing.
Without(d, missing) == [k \in DOMAIN d \ missing |-> d[k]]

\* from_dict given a snapshot that lacks some fields (an older snapshot file).
FromDictPartial ==
    /\ \E missing \in SUBSET DOMAIN FullSnapshot :
          /\ Cardinality(missing) <= MaxMissing
          /\ LET m == from_dict(Call(Cur), Without(FullSnapshot, missing)) IN
             /\ Becomes(m)
             /\ tbSeen' = m.st.in_tiebreak
             /\ arg' = PyDict(Without(FullSnapshot, missing))
    /\ op' = "from_dict"
    /\ pre' = Cur
    /\ preObservers' = observers
    /\ script' = Off

\* The engine loading snapshots that lack fields, one after another.
SpecPartial == Init /\ [][FromDictPartial]_vars

\* The listeners that may raise in update() during one call: one of them.
RaisingSets == {{l} : l \in Listeners}

HomeScoresPointRaising == \E bad \in RaisingSets : Scores(0, bad)

AwayScoresPointRaising == \E bad \in RaisingSets : Scores(1, bad)

SwapServerRaising == \E bad \in RaisingSets : Swaps(bad)

ResetRaising == \E bad \in RaisingSets : Resets(bad)

NextObs ==
    \/ HomeScoresPoint
    \/ AwayScoresPoint
    \/ SwapServer
    \/ Reset
    \/ HomeScoresPointRaising
    \/ AwayScoresPointRaising
    \/ SwapServerRaising
    \/ ResetRaising

\* The engine with listeners whose update() may raise.
SpecObs == InitOneSet /\ [][NextObs]_vars

FromDictRaising == \E bad \in RaisingSets : Loads(bad)

\* An operation of Subject that changes the listener list to obs: no attribute
\* of the match changes and nothing is notified.
Lists(name, l, obs) ==
    /\ observers' = obs
    /\ FieldsBecome(Cur)
    /\ delivered' = <<>>
    /\ received' = <<>>
    /\ raised' = FALSE
    /\ op' = name
    /\ pre' = Cur
    /\ arg' = PyListener(l)
    /\ preObservers' = observers
    /\ script' = Off
    /\ UNCHANGED <<tbSeen, held, inflight, disk>>

\* match.attach(l), for a listener attached or not.
Attach == \E l \in Listeners : Lists("attach", l, attach(observers, l))

\* match.detach(l), for a listener attached or not.
Detach == \E l \in Listeners : Lists("detach", l, detach(observers, l))

NextSubject ==
    \/ SwapServer
    \/ Reset
    \/ FromDict
    \/ SwapServerRaising
    \/ ResetRaising
    \/ FromDictRaising
    \/ Attach
    \/ Detach

\* The match as a Subject: listeners come and go between the operations that
\* notify once (reset, swap_server, from_dict), and may raise in update().
SpecSubject == Init /\ [][NextSubject]_vars

\* d = match.to_dict(): the caller holds the dict.
ToDict ==
    /\ held' = [kind |-> "to_dict", expect |-> to_dict(Cur), now |-> to_dict(Cur),
                shares |-> to_dict_shares, edited |-> FALSE, age |-> 0]
    /\ Observes("to_dict")

\* d = match.get_state(): the caller holds the dict, as a listener holds the one
\* _notify_state_change built for it.
GetState ==
    /\ held' = [kind |-> "get_state", expect |-> get_state(Cur), now |-> get_state(Cur),
                shares |-> get_state_shares, edited |-> FALSE, age |-> 0]
    /\ Observes("get_state")

\* The holder of a get_state() dict changes an item of one of its lists; a list
\* that is the engine's own list changes for the engine too.
EditSnapshot ==
    /\ held.kind = "get_state"
    /\ ~held.edited
    /\ \E f \in ListFields, i \in Players :
          /\ held' = [held EXCEPT !.now[f][i] = @ + 1,
                                  !.expect[f][i] = @ + 1,
                                  !.edited = TRUE]
          /\ FieldsBecome(IF f \in held.shares
                          THEN [Cur EXCEPT ![f][i] = @ + 1]
                          ELSE Cur)
    /\ delivered' = <<>>
    /\ received' = <<>>
    /\ raised' = FALSE
    /\ op' = "edit"
    /\ pre' = Cur
    /\ arg' = NoArg
    /\ preObservers' = observers
    /\ script' = Off
    /\ UNCHANGED <<observers, tbSeen, inflight, disk>>

\* d = match.get_score_display(): the caller holds the dict of strings.
GetScoreDisplay ==
    /\ held' = [kind |-> "get_score_display", expect |-> get_score_display(Cur),
                now |-> get_score_display(Cur), shares |-> {}, edited |-> FALSE,
                age |-> 0]
    /\ Observes("get_score_display")

\* The attributes of a match whose get_state() dict is d and best_of_sets is n.
FieldsOf(d, n) ==
    [best_of_sets    |-> n,
     sets            |-> d.sets,
     games           |-> d.games,
     points          |-> d.points,
     server          |-> d.server,
     match_complete  |-> d.match_complete,
     winner          |-> d.winner,
     in_tiebreak     |-> d.in_tiebreak,
     tiebreak_points |-> d.tiebreak_points]

\* The states a home_scores_point / away_scores_point call takes the match
\* through, the last being the state it returns in: the state after the
\* increment (line 65 / 75), the state at each swap_server inside _win_game /
\* _win_set (lines 159, 165), the state at line 98; a state equal to the next
\* one is left out.  A call on a completed match goes through none.
Stages(s, player) ==
    LET c == CallOn(s, <<>>, {}, NoHeld)
        m == scores_point(c, player)
        first == IncrItem(c, IF s.in_tiebreak THEN "tiebreak_points" ELSE "points",
                          player).st
        all == <<first>> \o [k \in 1..Len(m.out) |-> FieldsOf(m.out[k], s.best_of_sets)]
        keep == {k \in 1..Len(all) : k = Len(all) \/ all[k] # all[k + 1]}
        pick[k \in 0..Len(all)] ==
            IF k = 0 THEN <<>>
            ELSE IF k \in keep THEN Append(pick[k - 1], all[k]) ELSE pick[k - 1]
    IN IF s.match_complete THEN <<>> ELSE pick[Len(all)]

\* The listener thread of BluetoothController calls on_up_press / on_down_press:
\* home_scores_point / away_scores_point starts, and runs up to its next state.
ButtonPress ==
    /\ inflight = <<>>
    /\ ~match_complete
    /\ \E player \in Players :
          /\ CanScore(player)
          /\ FieldsBecome(Head(Stages(Cur, player)))
          /\ inflight' = Tail(Stages(Cur, player))
          /\ op' = IF player = 0 THEN "home" ELSE "away"
    /\ tbSeen' = tbSeen
    /\ delivered' = <<>>
    /\ received' = <<>>
    /\ raised' = FALSE
    /\ held' = NoHeld
    /\ pre' = Cur
    /\ arg' = NoArg
    /\ preObservers' = observers
    /\ script' = Off
    /\ UNCHANGED <<observers, disk>>

\* The scoring call the listener thread is in runs up to its next state.
CallProceeds ==
    /\ inflight # <<>>
    /\ FieldsBecome(Head(inflight))
    /\ inflight' = Tail(inflight)
    /\ held' = NoHeld
    /\ UNCHANGED <<delivered, received, raised, op, pre, arg, preObservers, script,
                   tbSeen, observers, disk>>

\* The listener thread calls on_right_press: reset, once the call before it is over.
ButtonPressReset ==
    /\ inflight = <<>>
    /\ Reset

\* The main thread of example_bluetooth_integration.main reads the match, at any
\* time: scoreboard._render_display() (get_state, line 84) and
\* scoreboard._save_match() (to_dict, line 94). Nothing makes it wait for the
\* listener thread.
NextThreads ==
    \/ ButtonPress
    \/ CallProceeds
    \/ ButtonPressReset
    \/ GetState
    \/ ToDict

\* The Bluetooth integration: the listener thread scores, the main thread reads.
SpecThreads == InitOneSet /\ [][NextThreads]_vars

\* Snapshots given to save_match: a new match and a match in progress.
SavedData == {to_dict(NewMatch(3).st), FullSnapshot}

\* An operation of PersistenceManager that leaves the directory as d: the match
\* is not touched.
Stores(name, a, d) ==
    /\ disk' = d
    /\ op' = name
    /\ arg' = a
    /\ UNCHANGED <<fields, delivered, received, raised, held, inflight, pre,
                   preObservers, script, tbSeen, observers>>

\* persistence.save_match(match_data).
SaveMatch ==
    /\ Len(disk.files) < MaxFiles
    /\ \E data \in SavedData : Stores("save_match", PyDict(data), save_match(disk, data))

\* persistence.delete_match(<date>-NN), for a file there or not.
DeleteMatch ==
    \E n \in 1..MaxFiles : Stores("delete_match", PyInt(n), delete_match(disk, n))

NextDisk ==
    \/ SaveMatch
    \/ DeleteMatch

\* The storage directory under save_match and delete_match.
SpecDisk == Init /\ [][NextDisk]_vars

\* The side values other than 0 and 1 given to _score_point.
OffSides == {-2, -1, 2}

\* match._score_point(player) with player neither 0 nor 1.
ScorePointOffSide ==
    /\ \E player \in OffSides :
          /\ IndexInRange(player) => CanScore(ListIndex(player))
          /\ LET m == _score_point_off_side(Call(Cur), player) IN
             /\ Becomes(m)
             /\ tbSeen' = (tbSeen \/ m.st.in_tiebreak)
          /\ arg' = PyInt(player)
    /\ op' = "_score_point"
    /\ pre' = Cur
    /\ preObservers' = observers
    /\ script' = Off

NextSide ==
    \/ HomeScoresPoint
    \/ AwayScoresPoint
    \/ SwapServer
    \/ Reset
    \/ ScorePointOffSide

\* The engine with a caller that passes side values of its own to _score_point.
SpecSide == InitOneSet /\ [][NextSide]_vars

NextShow ==
    \/ HomeScoresPoint
    \/ AwayScoresPoint
    \/ SwapServer
    \/ Reset
    \/ GetScoreDisplay

\* The engine with a caller that reads the formatted score.
SpecShow == InitOneSet /\ [][NextShow]_vars

NextSnap ==
    \/ HomeScoresPoint
    \/ AwayScoresPoint
    \/ SwapServer
    \/ Reset
    \/ ToDict
    \/ GetState
    \/ EditSnapshot

\* The engine with callers that keep the dicts it hands out.
SpecSnap == InitOneSet /\ [][NextSnap]_vars

\* m2 = Match(); m2.from_dict(m1.to_dict()), m1 being the engine of the model:
\* to_dict hands out m1's own lists and from_dict binds m2's attributes to the
\* lists of the dict, so m2 is held outside with its lists those of m1.
Transfer ==
    /\ LET m2 == from_dict(CallOn(NewMatch(3).st, <<>>, {}, NoHeld), to_dict(Cur)).st IN
       held' = [kind |-> "engine", expect |-> m2, now |-> m2,
                shares |-> to_dict_shares, edited |-> FALSE, age |-> 0]
    /\ Observes("transfer")

\* The counters of m2 stay within the bounds of the model.
OtherCanScore(player) ==
    \/ held.now.match_complete
    \/ /\ held.now.games[player] < MaxGames
       /\ \/ held.now.in_tiebreak /\ held.now.tiebreak_points[player] < MaxTB
          \/ ~held.now.in_tiebreak /\ held.now.points[player] < MaxPoints

\* An operation applied to m2: m2 is the object of the call, and m1 is what is
\* held outside of it, with the same lists shared.
OnOther(name, m) ==
    /\ FieldsBecome(m.ext.now)
    /\ held' = Aged([held EXCEPT !.now = m.st, !.expect = m.st,
                                  !.shares = m.ext.shares])
    /\ delivered' = <<>>
    /\ received' = <<>>
    /\ raised' = m.exc
    /\ op' = name
    /\ pre' = Cur
    /\ arg' = NoArg
    /\ preObservers' = observers
    /\ script' = Off
    /\ UNCHANGED <<observers, tbSeen, inflight, disk>>

\* The call record of an operation on m2.
OtherCall ==
    CallOn(held.now, <<>>, {},
           [kind |-> "engine", expect |-> Cur, now |-> Cur, shares |-> held.shares,
            edited |-> FALSE, age |-> held.age])

\* m2.home_scores_point() / m2.away_scores_point().
OtherScoresPoint ==
    /\ held.kind = "engine"
    /\ \E player \in Players :
          /\ OtherCanScore(player)
          /\ OnOther("other_scores", scores_point(OtherCall, player))

\* m2.swap_server().
OtherSwapServer ==
    /\ held.kind = "engine"
    /\ OnOther("other_swap", swap_server(OtherCall))

\* m2.reset().
OtherReset ==
    /\ held.kind = "engine"
    /\ OnOther("other_reset", reset(OtherCall))

NextTwo ==
    \/ HomeScoresPoint
    \/ AwayScoresPoint
    \/ SwapServer
    \/ Reset
    \/ Transfer
    \/ OtherScoresPoint
    \/ OtherSwapServer
    \/ OtherReset

\* Two engines, the second loaded from the first.
SpecTwo == InitOneSet /\ [][NextTwo]_vars

\* SimpleTennisScoreboard._load_latest_match on a new Match(): the snapshot of
\* load_latest is loaded when there is one (None and an empty dict are falsy).
_load_latest_match(d) ==
    LET latest_data == load_latest(d)
        match == CallOn(NewMatch(3).st, <<>>, {}, NoHeld)
    IN IF latest_data.type = "dict" /\ DOMAIN latest_data.value # {}
       THEN from_dict(match, latest_data.value)
       ELSE match

\* The match after player scored n points in a row from s (a point that changes
\* nothing, on a completed match, ends the run).
RECURSIVE Played(_, _, _)
Played(s, player, n) ==
    IF n = 0
    THEN s
    ELSE LET next == scores_point(CallOn(s, <<>>, {}, NoHeld), player).st IN
         IF next = s THEN s ELSE Played(next, player, n - 1)

\* Matches an earlier run of the scoreboard stopped at: deuce in the first game;
\* home a point from the match at one set and 5-0, 40-0; away a point from the
\* match at one set and 5-6 in the tiebreak.
EarlierRuns ==
    LET new == NewMatch(3).st
        oneSetAway == Played(new, 1, 24)
        sixAll == Played(Played(Played(Played(oneSetAway, 0, 20), 1, 20), 0, 4), 1, 4)
    IN { Played(Played(new, 0, 3), 1, 3),
         Played(Played(new, 0, 24), 0, 23),
         Played(Played(sixAll, 0, 5), 1, 6) }

\* SimpleTennisScoreboard() on an empty storage directory, or on one that holds
\* the last file of an earlier run. The ui is not attached to the match.
InitScoreboard ==
    \E d \in {EmptyDir} \cup {save_match(EmptyDir, to_dict(s)) : s \in EarlierRuns} :
        LET m == _load_latest_match(d) IN
        /\ best_of_sets    = m.st.best_of_sets
        /\ sets            = m.st.sets
        /\ games           = m.st.games
        /\ points          = m.st.points
        /\ server          = m.st.server
        /\ match_complete  = m.st.match_complete
        /\ winner          = m.st.winner
        /\ in_tiebreak     = m.st.in_tiebreak
        /\ tiebreak_points = m.st.tiebreak_points
        /\ delivered       = m.out
        /\ received        = m.rcv
        /\ raised          = m.exc
        /\ held            = NoHeld
        /\ observers       = <<>>
        /\ op = "init"
        /\ pre = m.st
        /\ arg = NoArg
        /\ preObservers = <<>>
        /\ inflight = <<>>
        /\ disk = d
        /\ script = Off
        /\ tbSeen = m.st.in_tiebreak

\* _handle_keyboard_input: the method of the match, then _save_match.
Key(name, m) ==
    /\ Len(disk.files) < MaxFiles
    /\ BecomesOnDisk(m, save_match(disk, to_dict(m.st)))
    /\ tbSeen' = (tbSeen \/ m.st.in_tiebreak)
    /\ op' = name
    /\ pre' = Cur
    /\ arg' = NoArg
    /\ preObservers' = observers
    /\ script' = Off

KeyUp == CanScore(0) /\ Key("UP", scores_point(Call(Cur), 0))

KeyDown == CanScore(1) /\ Key("DOWN", scores_point(Call(Cur), 1))

KeyRight == Key("RIGHT", reset(Call(Cur)))

\* The program is started again: a new SimpleTennisScoreboard on the directory.
Restart ==
    /\ LET m == _load_latest_match(disk) IN
       /\ BecomesOnDisk(m, disk)
       /\ tbSeen' = m.st.in_tiebreak
    /\ op' = "restart"
    /\ pre' = Cur
    /\ arg' = NoArg
    /\ preObservers' = observers
    /\ script' = Off

NextScoreboard ==
    \/ KeyUp
    \/ KeyDown
    \/ KeyRight
    \/ Restart

\* The keyboard scoreboard, stopped and started again at any time.
SpecScoreboard == InitScoreboard /\ [][NextScoreboard]_vars

\* One side scores every point from here on: the calls of the run are told from
\* the calls of free play by their name.
RunOps == <<"run_home", "run_away">>
OnRun == \E p \in Players : op = RunOps[p + 1]

\* The next point of player's run (the first one begins the run). A run needs
\* no bound on the counters: it is over when the match is complete.
RunScores(player) ==
    /\ ~match_complete
    /\ OnRun => op = RunOps[player + 1]
    /\ LET m == scores_point(Call(Cur), player) IN
       /\ Becomes(m)
       /\ tbSeen' = (tbSeen \/ m.st.in_tiebreak)
    /\ op' = RunOps[player + 1]
    /\ pre' = Cur
    /\ arg' = NoArg
    /\ preObservers' = observers
    /\ script' = Off

RunHome == RunScores(0)

RunAway == RunScores(1)

\* Any play until a run begins.
FreePlay == ~OnRun /\ Next

NextRun ==
    \/ FreePlay
    \/ RunHome
    \/ RunAway

\* A step of a run: a call under the name of the run on a match not complete
\* (on a run the only calls are the runner's scoring calls; pre, the fields before
\* the last call, becomes the fields the call found).
RunGoesOn == OnRun /\ ~match_complete /\ op' = op /\ pre' = Cur

\* Any play, then one side scoring every point: while the run is on and the match
\* is not complete, the next point of the run is played.
SpecRun == Init /\ [][NextRun]_vars /\ WF_pre(RunGoesOn)

-----------------------------------------------------------------------------
(* Vocabulary of the properties: the last call, read from the history *)

\* The last operation was home_scores_point or away_scores_point.
Scored == op \in {"home", "away"}
\* The side the last scoring call was for, and the other side.
Scorer == IF op = "home" THEN 0 ELSE 1
Opp == 1 - Scorer
\* The last call was a point played in regular play / in a tiebreak.
RegularPoint == Scored /\ ~pre.match_complete /\ ~pre.in_tiebreak
TiebreakPoint == Scored /\ ~pre.match_complete /\ pre.in_tiebreak
\* The counters of the last call's point once the point is counted.
PointsAfter == [pre.points EXCEPT ![Scorer] = @ + 1]
TiebreakAfter == [pre.tiebreak_points EXCEPT ![Scorer] = @ + 1]
GamesAfter == [pre.games EXCEPT ![Scorer] = @ + 1]
SetsAfter == [pre.sets EXCEPT ![Scorer] = @ + 1]
\* The rules as the specification words them.
GameRule == PointsAfter[Scorer] >= 4 /\ PointsAfter[Scorer] - PointsAfter[Opp] >= 2
SetRule == GamesAfter[Scorer] >= 6 /\ GamesAfter[Scorer] - GamesAfter[Opp] >= 2
TiebreakRule ==
    /\ TiebreakAfter[Scorer] >= 7
    /\ \/ TiebreakAfter[Opp] <= 5
       \/ TiebreakAfter[Scorer] - TiebreakAfter[Opp] >= 2
SetsNeeded == (best_of_sets \div 2) + 1

-----------------------------------------------------------------------------
(* C1 *)

\* C1: once match_complete is true, a home_scores_point / away_scores_point call
\* leaves every field (sets, games, points, tiebreak_points, in_tiebreak, server,
\* winner, match_complete) as it was; and match_complete goes from true to false
\* only in a reset or a from_dict call.
C1_CompleteIsFrozen ==
    /\ (Scored /\ pre.match_complete) => Cur = pre
    /\ (pre.match_complete /\ ~match_complete) => op \in {"reset", "from_dict"}

\* A scoring call was made on a completed match that had a winner and sets on
\* both sides.
C1_Witness ==
    /\ Scored
    /\ pre.match_complete
    /\ match_complete
    /\ pre.sets = Pair(1, 2)

-----------------------------------------------------------------------------
(* C2 *)

\* C2: in every state reached by scoring, swap_server and reset, winner is 0 or 1
\* exactly when match_complete is true (and is None otherwise).
C2_WinnerIffComplete ==
    /\ (winner \in Players) <=> match_complete
    /\ ~match_complete => winner = None

\* A match just completed by a point of the away side.
C2_Witness ==
    /\ match_complete
    /\ winner = 1
    /\ op = "away"

-----------------------------------------------------------------------------
(* C3 *)

\* C3: a scoring call on a match in play completes the match exactly when the
\* scorer's sets after the point are at least floor(best_of_sets/2)+1; the winner
\* is then the scorer, and the other side has fewer sets than that.
C3_MatchWon ==
    (Scored /\ ~pre.match_complete) =>
        /\ match_complete <=> sets[Scorer] >= SetsNeeded
        /\ match_complete => winner = Scorer /\ sets[Opp] < SetsNeeded

\* The deciding point of a best-of-3 match that stood at one set all.
C3_Witness ==
    /\ Scored
    /\ ~pre.match_complete
    /\ match_complete
    /\ best_of_sets = 3
    /\ pre.sets = Pair(1, 1)
    /\ winner = Scorer

-----------------------------------------------------------------------------
(* C4 *)

\* C4: in regular play a point for side s wins the game exactly when, the point
\* counted, points[s] >= 4 and points[s] - points[other] >= 2.  A winning point
\* makes _win_game record games[s] one higher (the snapshot it notifies shows it)
\* and leaves points = [0,0]; the call ends with that games value, or with
\* games = [0,0] when the game also closed the set.  Any other point leaves games
\* and sets alone and raises only points[s], by one, however long the deuce.
C4_GameWon ==
    RegularPoint =>
        IF GameRule
        THEN /\ points = Zero2
             /\ Len(delivered) >= 2
             /\ delivered[1].games = GamesAfter
             /\ \/ games = GamesAfter /\ sets = pre.sets
                \/ games = Zero2 /\ sets = SetsAfter
        ELSE /\ points = PointsAfter
             /\ games = pre.games
             /\ sets = pre.sets
             /\ Len(delivered) = 1

\* A game won out of a long deuce: the point played at 5-4.
C4_Witness ==
    /\ RegularPoint
    /\ pre.points[Scorer] = 5
    /\ pre.points[Opp] = 4
    /\ points = Zero2
    /\ games = GamesAfter

-----------------------------------------------------------------------------
(* C5 *)

\* C5: after a game win in regular play the set is won exactly when, the game
\* counted, games[s] >= 6 and games[s] - games[other] >= 2; then sets[s] is one
\* higher, the other side's sets are unchanged and games = [0,0]; otherwise sets
\* is unchanged and games keeps the counted game (6-5 does not close the set).
C5_SetWon ==
    (RegularPoint /\ GameRule) =>
        IF SetRule
        THEN sets = SetsAfter /\ games = Zero2
        ELSE sets = pre.sets /\ games = GamesAfter

\* A set closed 7-5.
C5_Witness ==
    /\ RegularPoint
    /\ GameRule
    /\ GamesAfter[Scorer] = 7
    /\ GamesAfter[Opp] = 5
    /\ sets = SetsAfter
    /\ games = Zero2

-----------------------------------------------------------------------------
(* C6 *)

\* C6: a point that brings games to [6,6] leaves in_tiebreak true and
\* points = tiebreak_points = [0,0]; and in_tiebreak turns true only in a scoring
\* call whose point wins a game of regular play and leaves games at [6,6].
C6_TiebreakEntry ==
    /\ (Scored /\ games = Pair(6, 6) /\ pre.games # Pair(6, 6)) =>
           /\ in_tiebreak
           /\ points = Zero2
           /\ tiebreak_points = Zero2
    /\ (in_tiebreak /\ ~pre.in_tiebreak) =>
           /\ RegularPoint
           /\ GameRule
           /\ games = Pair(6, 6)
           /\ games = GamesAfter

\* The game that makes it six all.
C6_Witness ==
    /\ Scored
    /\ pre.games = Pair(6, 5)
    /\ games = Pair(6, 6)
    /\ in_tiebreak
    /\ ~pre.in_tiebreak

-----------------------------------------------------------------------------
(* C7 *)

\* The object after one more call of home_scores_point / away_scores_point.
Then(s, player) == scores_point(Call(s), player).st

\* C7: a tiebreak point for side s ends the tiebreak (and wins the set) exactly
\* when, the point counted, tiebreak_points[s] >= 7 and the other side has at
\* most 5 or trails by 2 or more; any other point only raises
\* tiebreak_points[s].  From 6-6, two points by side 0 win the set and one point
\* each gives 7-7 with the tiebreak still on.
C7_TiebreakWon ==
    /\ TiebreakPoint =>
           IF TiebreakRule
           THEN ~in_tiebreak /\ sets = SetsAfter
           ELSE in_tiebreak /\ tiebreak_points = TiebreakAfter /\ sets = pre.sets
    /\ (in_tiebreak /\ ~match_complete /\ tiebreak_points = Pair(6, 6)) =>
           /\ ~Then(Then(Cur, 0), 0).in_tiebreak
           /\ Then(Then(Cur, 0), 0).sets = [sets EXCEPT ![0] = @ + 1]
           /\ Then(Cur, 0).in_tiebreak
           /\ Then(Then(Cur, 0), 1).in_tiebreak
           /\ Then(Then(Cur, 0), 1).tiebreak_points = Pair(7, 7)
           /\ Then(Then(Cur, 0), 1).sets = sets

\* A tiebreak won 9-7, after 6-6, 7-7.
C7_Witness ==
    /\ TiebreakPoint
    /\ TiebreakAfter[Scorer] = 9
    /\ TiebreakAfter[Opp] = 7
    /\ ~in_tiebreak
    /\ sets = SetsAfter

-----------------------------------------------------------------------------
(* C8 *)

\* C8: the point that wins a tiebreak for side s leaves sets[s] one higher, the
\* other side's sets unchanged, games = points = tiebreak_points = [0,0] and
\* in_tiebreak false.
C8_TiebreakWinResets ==
    (TiebreakPoint /\ TiebreakRule) =>
        /\ sets = SetsAfter
        /\ games = Zero2
        /\ points = Zero2
        /\ tiebreak_points = Zero2
        /\ ~in_tiebreak

\* A tiebreak won 7-5 by the home side from games 6-6.
C8_Witness ==
    /\ TiebreakPoint
    /\ op = "home"
    /\ pre.games = Pair(6, 6)
    /\ TiebreakAfter = Pair(7, 5)
    /\ sets[0] = pre.sets[0] + 1
    /\ ~in_tiebreak

-----------------------------------------------------------------------------
(* C9 *)

\* C9: in a fresh best-of-3 match, 48 straight home points (12 games) end with
\* sets = [2,0], match_complete true and winner 0, and in_tiebreak was never true
\* on the way.
C9_StraightSets ==
    /\ (best_of_sets = 3 /\ script # Off /\ script[2] = 0) => ~tbSeen
    /\ (best_of_sets = 3 /\ script = <<12 * 4, 0>>) =>
           /\ sets = Pair(2, 0)
           /\ match_complete
           /\ winner = 0

\* The 48th straight home point of a best-of-3 match has been played.
C9_Witness ==
    /\ best_of_sets = 3
    /\ script = <<12 * 4, 0>>
    /\ op = "home"
    /\ match_complete

-----------------------------------------------------------------------------
(* C10 *)

-----------------------------------------------------------------------------
(* Vocabulary of the notification properties *)

\* The last call's point completed neither a game nor a tiebreak.
PlainPoint ==
    \/ RegularPoint /\ ~GameRule
    \/ TiebreakPoint /\ ~TiebreakRule
\* The snapshots listener l was given by the last call, in order.
GivenTo(l) ==
    LET idx == {i \in 1..Len(received) : received[i][1] = l}
        f[n \in 0..Len(received)] ==
            IF n = 0 THEN <<>>
            ELSE IF n \in idx THEN Append(f[n - 1], received[n][2]) ELSE f[n - 1]
    IN f[Len(received)]
\* The attached listeners.
Attached == {observers[i] : i \in 1..Len(observers)}

-----------------------------------------------------------------------------
(* C11 *)

\* C11 as stated: server flips exactly once per completed game: after a point
\* that completes a game (also one that completes a set with it) server differs
\* from its value before the point, a tiebreak-winning point flips it once, and a
\* point that completes nothing leaves it unchanged.
C11_AsStated ==
    /\ (RegularPoint /\ GameRule) => server = 1 - pre.server
    /\ (TiebreakPoint /\ TiebreakRule) => server = 1 - pre.server
    /\ PlainPoint => server = pre.server

-----------------------------------------------------------------------------
(* C12 *)

\* C12: server toggles once for the completed game and once more for the
\* completed set: a regular point that completes a game and a set toggles it
\* twice (both toggles are notified) and leaves it as it was before the point; a
\* point that completes only a game toggles it once; a tiebreak-winning point
\* toggles it once; any other point leaves it alone.
C12_ServerToggles ==
    /\ (RegularPoint /\ GameRule /\ SetRule) =>
           /\ server = pre.server
           /\ Len(delivered) = 3
           /\ delivered[1].server = 1 - pre.server
           /\ delivered[2].server = pre.server
    /\ (RegularPoint /\ GameRule /\ ~SetRule) =>
           /\ server = 1 - pre.server
           /\ Len(delivered) = 2
           /\ delivered[1].server = 1 - pre.server
    /\ (TiebreakPoint /\ TiebreakRule) =>
           /\ server = 1 - pre.server
           /\ Len(delivered) = 2
           /\ delivered[1].server = 1 - pre.server
    /\ PlainPoint => server = pre.server

\* A point that closed a game and, with it, a set 6-4 while the away side served.
C12_Witness ==
    /\ RegularPoint
    /\ GameRule
    /\ SetRule
    /\ GamesAfter[Scorer] = 6
    /\ GamesAfter[Opp] = 4
    /\ pre.server = 1
    /\ server = 1

-----------------------------------------------------------------------------
(* C13 *)

\* C13 as stated: a home_scores_point / away_scores_point call on a match that is
\* not complete gives every attached listener exactly one notification, whatever
\* the point completes.
C13_AsStated ==
    (Scored /\ ~pre.match_complete) =>
        \A l \in Attached : Len(GivenTo(l)) = 1

-----------------------------------------------------------------------------
(* C14 *)

\* C14 as stated: every snapshot a listener is given during a scoring call is the
\* state the call ends in (points of a won game reset, games of a won set reset,
\* in_tiebreak cleared after a finished tiebreak, match_complete set by the
\* deciding point).
C14_AsStated ==
    Scored =>
        \A i \in 1..Len(received) : received[i][2] = get_state(Cur)

-----------------------------------------------------------------------------
(* C15 *)

\* C15 as stated: a home_scores_point / away_scores_point call made when
\* match_complete is already true still notifies the attached listeners, with the
\* unchanged current state.
C15_AsStated ==
    (Scored /\ pre.match_complete) =>
        /\ Len(delivered) >= 1
        /\ \A l \in Attached : GivenTo(l) = <<get_state(Cur)>>

\* C15 amended: a home_scores_point / away_scores_point call made when
\* match_complete is already true returns at once: it changes no field and
\* notifies no listener.
C15_CompleteIsSilent ==
    (Scored /\ pre.match_complete) =>
        /\ Cur = pre
        /\ delivered = <<>>
        /\ received = <<>>
        /\ \A l \in Attached : GivenTo(l) = <<>>

\* A scoring call on a completed match with listeners attached.
C15_Witness ==
    /\ Scored
    /\ pre.match_complete
    /\ Attached # {}
    /\ delivered = <<>>

-----------------------------------------------------------------------------
(* C16 *)

\* C16 as stated: when a listener's update() raises during a notification, the
\* other attached listeners are still given that notification and no exception
\* reaches the caller of the engine operation: after every operation each
\* attached listener has been given every snapshot the operation notified, and
\* the operation returned normally (the listeners are attached once the match
\* is constructed, so the constructor's own notification is left out).
C16_AsStated ==
    op # "init" =>
        /\ ~raised
        /\ \A l \in Attached : GivenTo(l) = delivered

-----------------------------------------------------------------------------
(* C17 *)

\* C17 as stated: a listener that raises during a notification of a scoring call
\* does not corrupt the engine: the call ends in the state it reaches when no
\* listener raises (the point fully applied: points and games reset, tiebreak
\* entered, match completed).
C17_AsStated ==
    Scored => Cur = Then(pre, Scorer)

-----------------------------------------------------------------------------
(* C18 *)

\* C18: a match that loads another match's to_dict() through from_dict has every
\* field (best_of_sets, sets, games, points, tiebreak_points, in_tiebreak,
\* server, match_complete, winner) equal to the other's, in whatever state the
\* other was.
C18_RoundTrip ==
    op = "load_new" => Cur = pre

\* A tiebreak in progress in a one-set match, away serving, loaded by a new
\* Match() (whose own best_of_sets is 3).
C18_Witness ==
    /\ op = "load_new"
    /\ best_of_sets = 1
    /\ in_tiebreak
    /\ tiebreak_points = Pair(3, 2)
    /\ server = 1
    /\ Cur = pre

-----------------------------------------------------------------------------
(* C19 *)

\* C19 as stated: to_dict changes no field and notifies nothing, and the dict it
\* returns is a copy: it keeps the values it had when taken whatever operation is
\* applied to the engine afterwards.
C19_AsStated ==
    /\ op = "to_dict" => (Cur = pre /\ delivered = <<>>)
    /\ held.kind = "to_dict" => held.now = held.expect

-----------------------------------------------------------------------------
(* C20 *)

\* C20: the dict get_state builds (for its caller, and for the listeners) shares
\* nothing with the engine: engine operations applied after it was handed out do
\* not change it, and a holder changing an item of its sets, games, points or
\* tiebreak_points changes no field of the engine.
C20_SnapshotIsDetached ==
    /\ held.kind = "get_state" => held.now = held.expect
    /\ (op = "edit" /\ held.kind = "get_state") => Cur = pre

\* A point was played after get_state() handed out the dict: the engine's points
\* moved on and the dict still reads the points it was built with.
C20_Witness ==
    /\ held.kind = "get_state"
    /\ held.age = 1
    /\ RegularPoint
    /\ ~GameRule
    /\ points # pre.points
    /\ held.now.points = pre.points

-----------------------------------------------------------------------------
(* C21 *)

\* The argument of from_dict is a snapshot in structure: a dict whose list fields,
\* where present, are lists of two items.
ValidSnapshot(obj) ==
    /\ obj.type = "dict"
    /\ \A f \in ListFields \cap DOMAIN obj.value : DOMAIN obj.value[f] = Players

-----------------------------------------------------------------------------
(* C22 *)

\* The defaults the claim gives for the fields a snapshot lacks.
Defaults ==
    [sets            |-> Zero2,
     games           |-> Zero2,
     points          |-> Zero2,
     tiebreak_points |-> Zero2,
     server          |-> 0,
     match_complete  |-> FALSE,
     in_tiebreak     |-> FALSE,
     winner          |-> None]

\* C22: after from_dict of a snapshot, every field the snapshot has is the
\* snapshot's value, and every field it lacks is at its default: sets, games,
\* points and tiebreak_points [0,0], server 0, match_complete and in_tiebreak
\* false, winner None -- whatever the field was before the load.
C22_MissingFieldsDefault ==
    (op = "from_dict" /\ ~raised /\ arg.type = "dict") =>
        /\ \A k \in DOMAIN arg.value : Cur[k] = arg.value[k]
        /\ \A k \in DOMAIN Defaults \ DOMAIN arg.value : Cur[k] = Defaults[k]

\* A snapshot without games and winner was loaded into an engine whose games and
\* winner were not at their defaults.
C22_Witness ==
    /\ op = "from_dict"
    /\ arg.type = "dict"
    /\ DOMAIN arg.value = DOMAIN FullSnapshot \ {"games", "winner"}
    /\ pre.games = Pair(3, 4)
    /\ pre.winner = 1
    /\ games = Zero2
    /\ winner = None
    /\ sets = Pair(1, 2)

-----------------------------------------------------------------------------
(* C23 *)

\* C23: after reset, whatever the state before (a completed match and a tiebreak
\* in progress included), sets, games, points and tiebreak_points are [0,0],
\* server is 0, in_tiebreak and match_complete are false and winner is None; and
\* a scoring call made next counts its point.
C23_ResetRestarts ==
    op = "reset" =>
        /\ sets = Zero2
        /\ games = Zero2
        /\ points = Zero2
        /\ tiebreak_points = Zero2
        /\ server = 0
        /\ ~in_tiebreak
        /\ ~match_complete
        /\ winner = None
        /\ Then(Cur, 0).points = Pair(1, 0)
        /\ Then(Cur, 1).points = Pair(0, 1)

\* reset was called on a match away had won two sets to one, away serving.
C23_Witness ==
    /\ op = "reset"
    /\ pre.match_complete
    /\ pre.winner = 1
    /\ pre.sets = Pair(1, 2)
    /\ pre.server = 1
    /\ ~match_complete

-----------------------------------------------------------------------------
(* C24 *)

\* C24: swap_server can be called in every state (mid-game, in a tiebreak, after
\* the match is complete); it sets server to 1 - server and leaves sets, games,
\* points, tiebreak_points, in_tiebreak, match_complete and winner as they were.
C24_SwapOnlyServer ==
    /\ ENABLED SwapServer
    /\ op = "swap" =>
          /\ ~raised
          /\ server = 1 - pre.server
          /\ Cur = [pre EXCEPT !.server = server]

\* swap_server was called on a completed match, away serving.
C24_Witness ==
    /\ op = "swap"
    /\ pre.match_complete
    /\ pre.server = 1
    /\ server = 0
    /\ match_complete

-----------------------------------------------------------------------------
(* C25 *)

\* C25 as stated: a call to reset, swap_server or from_dict gives each attached
\* listener exactly one notification, whose snapshot is the state of the engine
\* after the call.
C25_AsStated ==
    op \in {"reset", "swap", "from_dict"} =>
        \A l \in Attached : GivenTo(l) = <<get_state(Cur)>>

-----------------------------------------------------------------------------
(* C26 *)

\* Every snapshot of snaps given to every listener of obs, once, in list order.
Deliveries(snaps, obs) ==
    [n \in 1..(Len(snaps) * Len(obs)) |->
        <<obs[((n - 1) % Len(obs)) + 1], snaps[((n - 1) \div Len(obs)) + 1]>>]

\* C26 as stated: each notification of an operation calls update once on every
\* listener attached at that time, in the order they were attached, all with the
\* same snapshot, whatever attach and detach calls came before.
C26_AsStated ==
    received = Deliveries(delivered, preObservers)

-----------------------------------------------------------------------------
(* C27, C28 *)

\* The listener the last attach / detach call named.
Named == arg.value
\* The listeners attached before the last operation.
AttachedBefore == {preObservers[i] : i \in 1..Len(preObservers)}
\* No listener is twice in the list.
NoDuplicates(obs) == \A i, j \in 1..Len(obs) : obs[i] = obs[j] => i = j

\* C27: attach of a listener already attached leaves the listener list as it was
\* (same members, same order), and attach of another appends it; so no listener
\* is ever twice in the list, and no notification reaches a listener twice.
C27_AttachIdempotent ==
    /\ (op = "attach" /\ Named \in AttachedBefore) => observers = preObservers
    /\ (op = "attach" /\ Named \notin AttachedBefore) =>
          observers = Append(preObservers, Named)
    /\ NoDuplicates(observers)
    /\ \A l \in Listeners : Len(GivenTo(l)) <= Len(delivered)
    /\ ~raised => \A l \in AttachedBefore : GivenTo(l) = delivered

\* Listener 1, attached after listener 2, was attached again.
C27_Witness ==
    /\ op = "attach"
    /\ Named = 1
    /\ preObservers = <<2, 1>>
    /\ observers = <<2, 1>>

-----------------------------------------------------------------------------
(* C29 *)

\* C29: in every state reached by scoring, swap_server and reset no set is left
\* undecided: neither side's games is 7 or more, and games is [6,6] exactly when
\* in_tiebreak is true.
C29_NoUndecidedSet ==
    /\ \A i \in Players : games[i] < 7
    /\ (games = Pair(6, 6)) <=> in_tiebreak

\* Home, 6-5 up, won the next game: the set was decided 7-5 and games is back at
\* [0,0], no tiebreak.
C29_Witness ==
    /\ RegularPoint
    /\ Scorer = 0
    /\ pre.games = Pair(6, 5)
    /\ GameRule
    /\ games = Zero2
    /\ sets = SetsAfter
    /\ ~in_tiebreak

-----------------------------------------------------------------------------
(* C30 *)

\* C30: in every state reached by scoring, swap_server and reset one pair of
\* point counters is in use: while in_tiebreak is true points is [0,0] and a
\* scoring call leaves points alone, counting in tiebreak_points; while
\* in_tiebreak is false tiebreak_points is [0,0] and a scoring call leaves
\* tiebreak_points alone, counting in points.
C30_OnePairActive ==
    /\ in_tiebreak => points = Zero2
    /\ ~in_tiebreak => tiebreak_points = Zero2
    /\ TiebreakPoint =>
          /\ points = pre.points
          /\ tiebreak_points = IF TiebreakRule THEN Zero2 ELSE TiebreakAfter
    /\ RegularPoint =>
          /\ tiebreak_points = pre.tiebreak_points
          /\ points = IF GameRule THEN Zero2 ELSE PointsAfter

\* Away scored in a tiebreak to make it 3-4.
C30_Witness ==
    /\ TiebreakPoint
    /\ Scorer = 1
    /\ in_tiebreak
    /\ tiebreak_points = Pair(3, 4)
    /\ points = Zero2

-----------------------------------------------------------------------------
(* C31 *)

\* C31: from points [3,3] in regular play a point for side 0 makes the points
\* display "Advantage - 40"; from there a second point for side 0 wins the game,
\* and a point for side 1 instead brings the display back to "40 - 40".
C31_DeuceSymmetry ==
    /\ (RegularPoint /\ pre.points = Pair(3, 3) /\ Scorer = 0) =>
          /\ points = Pair(4, 3)
          /\ _format_points(Cur) = "Advantage - 40"
    /\ (RegularPoint /\ pre.points = Pair(4, 3) /\ Scorer = 0) =>
          /\ points = Zero2
          /\ delivered[1].games = GamesAfter
          /\ \/ games = GamesAfter /\ sets = pre.sets
             \/ games = Zero2 /\ sets = SetsAfter
    /\ (RegularPoint /\ pre.points = Pair(4, 3) /\ Scorer = 1) =>
          /\ points = Pair(4, 4)
          /\ games = pre.games
          /\ _format_points(Cur) = "40 - 40"

\* Side 0 scored at 3-3.
C31_Witness ==
    /\ RegularPoint
    /\ pre.points = Pair(3, 3)
    /\ Scorer = 0
    /\ _format_points(Cur) = "Advantage - 40"

-----------------------------------------------------------------------------
(* C32 *)

\* The conventional name of n points.
PointName(n) ==
    CASE n = 0 -> "0"
      [] n = 1 -> "15"
      [] n = 2 -> "30"
      [] n = 3 -> "40"
      [] OTHER -> "?"

\* C32: get_score_display changes no field and notifies nothing, and the points
\* it shows are: in a tiebreak the two raw tiebreak point counts; in regular play
\* the deuce label "40 - 40" when both sides have 3 or more points and are
\* level, Advantage on the leader's side when both have 3 or more and are not,
\* and each side's 0/15/30/40 otherwise.
C32_DisplayProjection ==
    op = "get_score_display" =>
        /\ Cur = pre
        /\ delivered = <<>>
        /\ held.now.points =
              IF in_tiebreak
              THEN "Tiebreak: " \o ToString(tiebreak_points[0]) \o " - "
                       \o ToString(tiebreak_points[1])
              ELSE IF points[0] >= 3 /\ points[1] >= 3
                   THEN IF points[0] = points[1] THEN "40 - 40"
                        ELSE IF points[0] > points[1] THEN "Advantage - 40"
                        ELSE "40 - Advantage"
                   ELSE PointName(points[0]) \o " - " \o PointName(points[1])

\* The display was read during a tiebreak at 6-5.
C32_Witness ==
    /\ op = "get_score_display"
    /\ in_tiebreak
    /\ held.now.points = "Tiebreak: 6 - 5"

-----------------------------------------------------------------------------
(* C33 *)

\* C33 as stated: scoring with a side value that is neither 0 nor 1 ends with an
\* error at its caller and changes no counter (no field): the value is never
\* counted for one of the two sides.
C33_AsStated ==
    (op = "_score_point" /\ arg.value \notin Players) => (raised /\ Cur = pre)

-----------------------------------------------------------------------------
(* C34 *)

\* C34 as stated: in the Bluetooth integration the engine operations exclude one
\* another: a read of the match by the main thread (get_state to render, to_dict
\* to save) never falls inside a scoring call of the listener thread, so never
\* sees a point partly applied.
C34_AsStated ==
    op \in {"get_state", "to_dict"} => inflight = <<>>

-----------------------------------------------------------------------------
(* C35 *)

\* C35 as stated: whenever save_match and delete_match calls have left at least
\* one match file in the directory, latest.json leads to the most recent of the
\* remaining files and load_latest returns the snapshot saved in it.
C35_AsStated ==
    disk.files # <<>> =>
        LET newest == disk.files[Len(disk.files)] IN
        /\ disk.latest = newest.id
        /\ load_latest(disk) = PyDict(json_load(newest.content.data))

-----------------------------------------------------------------------------
(* C36 *)

\* C36 as stated: after m2.from_dict(m1.to_dict()) the two engines are
\* independent: a scoring, swap or reset operation applied to m1 changes no field
\* of m2, and one applied to m2 changes no field of m1.
C36_AsStated ==
    /\ held.kind = "engine" => held.now = held.expect
    /\ op \in {"other_scores", "other_swap", "other_reset"} => Cur = pre

-----------------------------------------------------------------------------
(* C37 *)

\* C37: a SimpleTennisScoreboard constructed on the storage directory after UP,
\* DOWN and RIGHT keys were handled starts with a match equal, field for field,
\* to the match after the last handled key.
C37_RestartRestores ==
    op = "restart" => Cur = pre

\* The scoreboard is started again after the key that won the match: the file
\* of that key holds a winner, and the restart is the first since that key.
C37_Witness ==
    /\ op = "restart"
    /\ match_complete
    /\ winner = 1
    /\ Len(disk.files) >= 2
    /\ load_latest(disk).value.match_complete
    /\ ~load_match(disk, disk.latest - 1).match_complete

-----------------------------------------------------------------------------
(* C38 *)

\* C38: in every state reached by scoring, swap_server and reset on an engine
\* built with best_of_sets = n, each side has at most floor(n/2)+1 sets, at most
\* one side has floor(n/2)+1 sets, and for odd n the two sides have at most n sets
\* together.
C38_SetsBounded ==
    /\ \A i \in Players : sets[i] <= SetsNeeded
    /\ ~(sets[0] = SetsNeeded /\ sets[1] = SetsNeeded)
    /\ best_of_sets % 2 = 1 => sets[0] + sets[1] <= best_of_sets

\* A best-of-3 match that went the full three sets: the winner holds the two sets
\* needed and the sets played are as many as best_of_sets.
C38_Witness ==
    /\ best_of_sets = 3
    /\ match_complete
    /\ sets[0] + sets[1] = 3
    /\ sets[winner] = SetsNeeded

-----------------------------------------------------------------------------
(* C39 *)

\* C39: from every reachable state of a match not complete, when one side scores
\* every point from there on, the match becomes complete after finitely many
\* points and that side is the winner (so a match that goes on forever has both
\* sides scoring again and again).
C39_RunEndsMatch ==
    /\ (op = "run_home") ~> (match_complete /\ winner = 0)
    /\ (op = "run_away") ~> (match_complete /\ winner = 1)

\* Home's run, begun a set down in a best-of-3 match, has won the match.
C39_Witness ==
    /\ op = "run_home"
    /\ best_of_sets = 3
    /\ sets = Pair(2, 1)
    /\ match_complete
    /\ winner = 0

-----------------------------------------------------------------------------
(* C40 *)

\* C40: a point scored for one side never credits the other: after
\* home_scores_point or away_scores_point the opponent's sets are not more than
\* before, and the opponent's games, points and tiebreak_points are each as
\* before or reset to 0.
C40_NoCreditToOpponent ==
    Scored =>
        /\ sets[Opp] <= pre.sets[Opp]
        /\ games[Opp] \in {pre.games[Opp], 0}
        /\ points[Opp] \in {pre.points[Opp], 0}
        /\ tiebreak_points[Opp] \in {pre.tiebreak_points[Opp], 0}

\* The scorer wins a set in which the opponent had games and points: the
\* opponent's games and points are reset, its sets stay as they were.
C40_Witness ==
    /\ Scored
    /\ sets[Scorer] = pre.sets[Scorer] + 1
    /\ pre.games[Opp] > 0
    /\ pre.points[Opp] > 0
    /\ pre.sets[Opp] > 0
    /\ games[Opp] = 0
    /\ points[Opp] = 0
    /\ sets[Opp] = pre.sets[Opp]

====
